---- MODULE Spec2Model ----
(***************************************************************************)
(* Model of src/settings.rs of fzdwx/just: the Settings record, the fold   *)
(* Settings::from_setting_iter of directives into a settings snapshot, and *)
(* the shell resolution Settings::shell.                                   *)
(*                                                                         *)
(* Option<T> is modelled as a sequence of length at most one:              *)
(* None = <<>>, Some(v) = <<v>>.  A StringLiteral is a record with its raw *)
(* and its cooked form.  A (command, arguments) pair is a 2-tuple.         *)
(***************************************************************************)
EXTENDS Integers, Sequences, FiniteSets, TLC

VARIABLES pc, consumed, settings, config, windows, result

vars == <<pc, consumed, settings, config, windows, result>>

None == <<>>

Some(v) == <<v>>

(* ---------------------------------------------------------------- bounds *)

\* longest argument list of a shell directive or of a --shell-arg override
MaxArgs == 2

\* longest directive sequence handed to from_setting_iter
MaxDirectives == 3

(* ------------------------------------------------------------- constants *)

DEFAULT_SHELL == "sh"

DEFAULT_SHELL_ARGS == <<"-cu">>

WINDOWS_POWERSHELL_SHELL == "powershell.exe"

WINDOWS_POWERSHELL_ARGS == <<"-NoLogo", "-Command">>

(* ---------------------------------------------------------- input values *)

SeqsUpTo(S, n) == UNION {[1..k -> S] : k \in 0..n}

\* string literals as the parser hands them over: raw source text and the
\* escape-processed text, which differ when the literal contains an escape
CommandLiterals ==
  { [raw |-> "asdf.exe", cooked |-> "asdf.exe"],
    [raw |-> "c\\\\d", cooked |-> "c\\d"] }

ArgumentLiterals ==
  { [raw |-> "-nope", cooked |-> "-nope"],
    [raw |-> "-c\\t", cooked |-> "-c\t"] }

Shells ==
  [command : CommandLiterals, arguments : SeqsUpTo(ArgumentLiterals, MaxArgs)]

Tempdirs == {"/tmp", "/var/tmp"}

OverrideShells == {"lol"}

OverrideArgs == {"-nice", "-x"}

Default ==
  [ allow_duplicate_recipes |-> FALSE,
    dotenv_load |-> None,
    export |-> FALSE,
    fallback |-> FALSE,
    ignore_comments |-> FALSE,
    positional_arguments |-> FALSE,
    shell |-> None,
    tempdir |-> None,
    windows_powershell |-> FALSE,
    windows_shell |-> None ]

Option(S) == {None} \cup {Some(v) : v \in S}

BoolFields ==
  { "allow_duplicate_recipes", "export", "fallback", "ignore_comments",
    "positional_arguments" }

\* values of the seven fields Settings::shell never reads: the defaults, each
\* field on its own away from its default, and all of them away from it
OtherFields ==
  {Default}
  \cup {[Default EXCEPT ![f] = TRUE] : f \in BoolFields}
  \cup {[Default EXCEPT !.dotenv_load = Some(b)] : b \in BOOLEAN}
  \cup {[Default EXCEPT !.tempdir = Some(t)] : t \in Tempdirs}
  \cup { [ Default EXCEPT !.allow_duplicate_recipes = TRUE,
                          !.dotenv_load = Some(TRUE),
                          !.export = TRUE,
                          !.fallback = TRUE,
                          !.ignore_comments = TRUE,
                          !.positional_arguments = TRUE,
                          !.tempdir = Some("/tmp") ] }

Snapshots ==
  { [base EXCEPT !.shell = s, !.windows_shell = ws, !.windows_powershell = wp] :
      base \in OtherFields,
      s \in Option(Shells), ws \in Option(Shells), wp \in BOOLEAN }

Configs ==
  [ shell : Option(OverrideShells),
    shell_args : Option(SeqsUpTo(OverrideArgs, MaxArgs)),
    shell_command : BOOLEAN ]

NoConfig == [shell |-> None, shell_args |-> None, shell_command |-> FALSE]

(* ------------------------------------------------------- Settings::shell *)

\* variant of Cooked that reads the raw source text of each literal
Cooked_raw(sh) ==
  << sh.command.raw, [i \in 1..Len(sh.arguments) |-> sh.arguments[i].raw] >>

\* shell.command.cooked.as_ref() and the map over shell.arguments
Cooked(sh) ==
  << sh.command.cooked, [i \in 1..Len(sh.arguments) |-> sh.arguments[i].cooked] >>

\* shell_args.iter().map(String::as_ref).collect()
AsRefs(shell_args) == [i \in 1..Len(shell_args) |-> shell_args[i]]

\* variant of Declared that tests the PowerShell flag before windows_shell
Declared_powershell_first(self, cfg_windows) ==
  IF cfg_windows /\ self.windows_powershell
    THEN <<WINDOWS_POWERSHELL_SHELL, WINDOWS_POWERSHELL_ARGS>>
    ELSE IF cfg_windows /\ self.windows_shell # None
      THEN Cooked(self.windows_shell[1])
      ELSE IF self.shell # None
        THEN Cooked(self.shell[1])
        ELSE <<DEFAULT_SHELL, DEFAULT_SHELL_ARGS>>

\* variant of Declared that tests the generic shell before the PowerShell flag
Declared_shell_first(self, cfg_windows) ==
  IF cfg_windows /\ self.windows_shell # None
    THEN Cooked(self.windows_shell[1])
    ELSE IF self.shell # None
      THEN Cooked(self.shell[1])
      ELSE IF cfg_windows /\ self.windows_powershell
        THEN <<WINDOWS_POWERSHELL_SHELL, WINDOWS_POWERSHELL_ARGS>>
        ELSE <<DEFAULT_SHELL, DEFAULT_SHELL_ARGS>>

\* variant of Declared that honours the PowerShell flag on every platform
Declared_powershell_anywhere(self, cfg_windows) ==
  IF cfg_windows /\ self.windows_shell # None
    THEN Cooked(self.windows_shell[1])
    ELSE IF self.windows_powershell
      THEN <<WINDOWS_POWERSHELL_SHELL, WINDOWS_POWERSHELL_ARGS>>
      ELSE IF self.shell # None
        THEN Cooked(self.shell[1])
        ELSE <<DEFAULT_SHELL, DEFAULT_SHELL_ARGS>>

\* the (None, None) arm: platform and source-directive resolution
Declared(self, cfg_windows) ==
  IF cfg_windows /\ self.windows_shell # None
    THEN Cooked(self.windows_shell[1])
    ELSE IF cfg_windows /\ self.windows_powershell
      THEN <<WINDOWS_POWERSHELL_SHELL, WINDOWS_POWERSHELL_ARGS>>
      ELSE IF self.shell # None
        THEN Cooked(self.shell[1])
        ELSE <<DEFAULT_SHELL, DEFAULT_SHELL_ARGS>>

\* variant of shell whose first arm matches (Some(shell), _)
shell_ignoring_shell_args(self, cfg, cfg_windows) ==
  IF cfg.shell # None
    THEN <<cfg.shell[1], DEFAULT_SHELL_ARGS>>
    ELSE IF cfg.shell_args # None
      THEN <<DEFAULT_SHELL, AsRefs(cfg.shell_args[1])>>
      ELSE Declared(self, cfg_windows)

\* variant of shell where a bare command override keeps the declared arguments
shell_inheriting_arguments(self, cfg, cfg_windows) ==
  IF cfg.shell # None /\ cfg.shell_args # None
    THEN <<cfg.shell[1], AsRefs(cfg.shell_args[1])>>
    ELSE IF cfg.shell # None
      THEN <<cfg.shell[1], Declared(self, cfg_windows)[2]>>
      ELSE IF cfg.shell_args # None
        THEN <<DEFAULT_SHELL, AsRefs(cfg.shell_args[1])>>
        ELSE Declared(self, cfg_windows)

\* variant of shell where a bare arguments override keeps the declared command
shell_inheriting_command(self, cfg, cfg_windows) ==
  IF cfg.shell # None /\ cfg.shell_args # None
    THEN <<cfg.shell[1], AsRefs(cfg.shell_args[1])>>
    ELSE IF cfg.shell # None
      THEN <<cfg.shell[1], DEFAULT_SHELL_ARGS>>
      ELSE IF cfg.shell_args # None
        THEN <<Declared(self, cfg_windows)[1], AsRefs(cfg.shell_args[1])>>
        ELSE Declared(self, cfg_windows)

\* variant of shell that consults config.shell_command and settings.tempdir
shell_reading_other_fields(self, cfg, cfg_windows) ==
  IF cfg.shell # None /\ cfg.shell_args # None
    THEN <<cfg.shell[1], AsRefs(cfg.shell_args[1])>>
    ELSE IF cfg.shell # None
      THEN <<cfg.shell[1], DEFAULT_SHELL_ARGS>>
      ELSE IF cfg.shell_args # None
        THEN <<DEFAULT_SHELL, AsRefs(cfg.shell_args[1])>>
        ELSE IF cfg.shell_command \/ self.tempdir # None
          THEN <<DEFAULT_SHELL, DEFAULT_SHELL_ARGS>>
          ELSE Declared(self, cfg_windows)

shell(self, cfg, cfg_windows) ==
  IF cfg.shell # None /\ cfg.shell_args # None
    THEN <<cfg.shell[1], AsRefs(cfg.shell_args[1])>>
    ELSE IF cfg.shell # None
      THEN <<cfg.shell[1], DEFAULT_SHELL_ARGS>>
      ELSE IF cfg.shell_args # None
        THEN <<DEFAULT_SHELL, AsRefs(cfg.shell_args[1])>>
        ELSE Declared(self, cfg_windows)

(* ------------------------------------------ specification of the resolver *)

Init ==
  /\ pc = "ready"
  /\ consumed = <<>>
  /\ settings \in Snapshots
  /\ config \in Configs
  /\ windows \in BOOLEAN
  /\ result = None

\* one call settings.shell(&config) on the platform the build targets
Shell ==
  /\ pc = "ready"
  /\ result' = Some(shell(settings, config, windows))
  /\ pc' = "resolved"
  /\ UNCHANGED <<consumed, settings, config, windows>>

Next == Shell

Spec == Init /\ [][Next]_vars

(* ------------------------------------------------- properties of the resolver *)

\* C1: when config.shell and config.shell_args are both present, the call
\* returns exactly (config.shell, config.shell_args), the arguments in the
\* same order and number (the empty list included), whatever the snapshot
\* and the platform.
C1_TotalOverride ==
  (pc = "resolved" /\ config.shell # None /\ config.shell_args # None)
    => result = Some(<<config.shell[1], config.shell_args[1]>>)

C1_Witness ==
  /\ pc = "resolved"
  /\ windows
  /\ settings.windows_shell # None
  /\ settings.shell # None
  /\ settings.windows_powershell
  /\ config.shell = Some("lol")
  /\ config.shell_args = Some(<<"-x", "-nice">>)
  /\ result = Some(<<"lol", <<"-x", "-nice">>>>)

\* C2: when config.shell is present and config.shell_args is absent, the call
\* returns (config.shell, ["-cu"]) whatever the snapshot and the platform, so
\* the arguments come neither from a declared shell nor from PowerShell.
C2_CommandOverrideOnly ==
  (pc = "resolved" /\ config.shell # None /\ config.shell_args = None)
    => result = Some(<<config.shell[1], <<"-cu">>>>)

C2_Witness ==
  /\ pc = "resolved"
  /\ windows
  /\ settings.windows_powershell
  /\ settings.shell # None
  /\ settings.shell[1].arguments # <<>>
  /\ settings.windows_shell # None
  /\ config.shell = Some("lol")
  /\ config.shell_args = None
  /\ result = Some(<<"lol", <<"-cu">>>>)

\* C3: when config.shell_args is present and config.shell is absent, the call
\* returns ("sh", config.shell_args) whatever the snapshot and the platform,
\* so the command comes neither from a declared shell nor from PowerShell.
C3_ArgsOverrideOnly ==
  (pc = "resolved" /\ config.shell = None /\ config.shell_args # None)
    => result = Some(<<"sh", config.shell_args[1]>>)

C3_Witness ==
  /\ pc = "resolved"
  /\ windows
  /\ settings.windows_powershell
  /\ settings.shell # None
  /\ settings.windows_shell # None
  /\ config.shell = None
  /\ config.shell_args = Some(<<"-nice">>)
  /\ result = Some(<<"sh", <<"-nice">>>>)

\* C4: with no override, on Windows, a present windows_shell gives its cooked
\* command and its cooked arguments in order, whatever windows_powershell and
\* the generic shell are.
C4_WindowsShellFirst ==
  ( /\ pc = "resolved"
    /\ config.shell = None
    /\ config.shell_args = None
    /\ windows
    /\ settings.windows_shell # None )
    => LET ws == settings.windows_shell[1]
       IN  result = Some(<< ws.command.cooked,
                            [i \in 1..Len(ws.arguments) |-> ws.arguments[i].cooked] >>)

C4_Witness ==
  /\ pc = "resolved"
  /\ config.shell = None
  /\ config.shell_args = None
  /\ windows
  /\ settings.windows_powershell
  /\ settings.shell # None
  /\ settings.windows_shell # None
  /\ settings.shell # settings.windows_shell
  /\ Len(settings.windows_shell[1].arguments) = 2
  /\ settings.windows_shell[1].arguments[1] # settings.windows_shell[1].arguments[2]
  /\ result = Some(<<"c\\d", <<"-c\t", "-nope">>>>)

\* C5: with no override, on Windows, with windows_shell absent and
\* windows_powershell set, the call returns
\* ("powershell.exe", ["-NoLogo", "-Command"]) even when a generic shell is
\* declared.
C5_PowerShellBeforeShell ==
  ( /\ pc = "resolved"
    /\ config.shell = None
    /\ config.shell_args = None
    /\ windows
    /\ settings.windows_shell = None
    /\ settings.windows_powershell )
    => result = Some(<<"powershell.exe", <<"-NoLogo", "-Command">>>>)

C5_Witness ==
  /\ pc = "resolved"
  /\ config.shell = None
  /\ config.shell_args = None
  /\ windows
  /\ settings.windows_shell = None
  /\ settings.windows_powershell
  /\ settings.shell # None
  /\ result = Some(<<"powershell.exe", <<"-NoLogo", "-Command">>>>)

\* C6: with no override, off Windows, a present generic shell gives its cooked
\* command and its cooked arguments in order, whatever windows_shell and
\* windows_powershell are.
C6_DeclaredShellOffWindows ==
  ( /\ pc = "resolved"
    /\ config.shell = None
    /\ config.shell_args = None
    /\ ~windows
    /\ settings.shell # None )
    => LET sh == settings.shell[1]
       IN  result = Some(<< sh.command.cooked,
                            [i \in 1..Len(sh.arguments) |-> sh.arguments[i].cooked] >>)

C6_Witness ==
  /\ pc = "resolved"
  /\ config.shell = None
  /\ config.shell_args = None
  /\ ~windows
  /\ settings.windows_powershell
  /\ settings.windows_shell # None
  /\ settings.shell # None
  /\ settings.shell[1].command.raw # settings.shell[1].command.cooked
  /\ result = Some(<<"c\\d", <<"-nope", "-c\t">>>>)

\* C7: the call is total: it can always be made, and it returns one pair of a
\* command string and a list of argument strings; with no override and no
\* applicable declaration (off Windows: no generic shell; on Windows: no
\* windows_shell, windows_powershell unset, no generic shell) the pair is
\* ("sh", ["-cu"]).
C7_TotalWithDefault ==
  /\ pc = "ready" => ENABLED Shell
  /\ pc = "resolved" =>
       /\ Len(result) = 1
       /\ Len(result[1]) = 2
       /\ result[1][1] \in STRING
       /\ result[1][2] \in Seq(STRING)
       /\ ( /\ config.shell = None
            /\ config.shell_args = None
            /\ settings.shell = None
            /\ windows => (settings.windows_shell = None /\ ~settings.windows_powershell) )
            => result = Some(<<"sh", <<"-cu">>>>)

C7_Witness ==
  /\ pc = "resolved"
  /\ config.shell = None
  /\ config.shell_args = None
  /\ ~windows
  /\ settings.shell = None
  /\ settings.windows_shell # None
  /\ settings.windows_powershell
  /\ result = Some(<<"sh", <<"-cu">>>>)

\* C9: a call leaves the snapshot, the overrides and the platform flag as
\* they were, and what it returns is what it returns for the snapshot with
\* allow_duplicate_recipes, dotenv_load, export, fallback, ignore_comments,
\* positional_arguments and tempdir reset to their defaults and for the
\* overrides with shell_command reset: those fields have no influence.
C9_OnlyShellFieldsMatter ==
  [][ (pc = "ready" /\ pc' = "resolved") =>
        /\ settings' = settings
        /\ config' = config
        /\ windows' = windows
        /\ result' =
             Some(shell([Default EXCEPT !.shell = settings.shell,
                                        !.windows_shell = settings.windows_shell,
                                        !.windows_powershell = settings.windows_powershell],
                        [config EXCEPT !.shell_command = FALSE],
                        windows)) ]_vars

C9_Witness ==
  /\ pc = "resolved"
  /\ config.shell = None
  /\ config.shell_args = None
  /\ config.shell_command
  /\ settings.allow_duplicate_recipes
  /\ settings.dotenv_load = Some(TRUE)
  /\ settings.export
  /\ settings.fallback
  /\ settings.ignore_comments
  /\ settings.positional_arguments
  /\ settings.tempdir # None
  /\ settings.shell # None
  /\ result = Some(Cooked(settings.shell[1]))

(* -------------------------------------------- Settings::from_setting_iter *)

\* the directives the fold is exercised with; a Setting is a tagged value
FoldShells ==
  { [ command |-> [raw |-> "asdf.exe", cooked |-> "asdf.exe"],
      arguments |-> << [raw |-> "-nope", cooked |-> "-nope"] >> ],
    [ command |-> [raw |-> "c\\\\d", cooked |-> "c\\d"],
      arguments |-> << >> ] }

Setting(kind, value) == [kind |-> kind, value |-> value]

\* variant of Apply whose Shell arm keeps a shell that is already set
Apply_first_shell_wins(s, set) ==
  CASE set.kind = "AllowDuplicateRecipes" ->
         [s EXCEPT !.allow_duplicate_recipes = set.value]
    [] set.kind = "DotenvLoad" ->
         [s EXCEPT !.dotenv_load = Some(set.value)]
    [] set.kind = "Export" ->
         [s EXCEPT !.export = set.value]
    [] set.kind = "Fallback" ->
         [s EXCEPT !.fallback = set.value]
    [] set.kind = "IgnoreComments" ->
         [s EXCEPT !.ignore_comments = set.value]
    [] set.kind = "PositionalArguments" ->
         [s EXCEPT !.positional_arguments = set.value]
    [] set.kind = "Shell" ->
         IF s.shell = None THEN [s EXCEPT !.shell = Some(set.value)] ELSE s
    [] set.kind = "WindowsPowerShell" ->
         [s EXCEPT !.windows_powershell = set.value]
    [] set.kind = "WindowsShell" ->
         [s EXCEPT !.windows_shell = Some(set.value)]
    [] set.kind = "Tempdir" ->
         [s EXCEPT !.tempdir = Some(set.value)]

\* variant of Apply whose Shell arm also clears windows_shell
Apply_shell_clears_windows_shell(s, set) ==
  CASE set.kind = "AllowDuplicateRecipes" ->
         [s EXCEPT !.allow_duplicate_recipes = set.value]
    [] set.kind = "DotenvLoad" ->
         [s EXCEPT !.dotenv_load = Some(set.value)]
    [] set.kind = "Export" ->
         [s EXCEPT !.export = set.value]
    [] set.kind = "Fallback" ->
         [s EXCEPT !.fallback = set.value]
    [] set.kind = "IgnoreComments" ->
         [s EXCEPT !.ignore_comments = set.value]
    [] set.kind = "PositionalArguments" ->
         [s EXCEPT !.positional_arguments = set.value]
    [] set.kind = "Shell" ->
         [s EXCEPT !.shell = Some(set.value), !.windows_shell = None]
    [] set.kind = "WindowsPowerShell" ->
         [s EXCEPT !.windows_powershell = set.value]
    [] set.kind = "WindowsShell" ->
         [s EXCEPT !.windows_shell = Some(set.value)]
    [] set.kind = "Tempdir" ->
         [s EXCEPT !.tempdir = Some(set.value)]

\* the body of the match: one arm per kind of Setting
Apply(s, set) ==
  CASE set.kind = "AllowDuplicateRecipes" ->
         [s EXCEPT !.allow_duplicate_recipes = set.value]
    [] set.kind = "DotenvLoad" ->
         [s EXCEPT !.dotenv_load = Some(set.value)]
    [] set.kind = "Export" ->
         [s EXCEPT !.export = set.value]
    [] set.kind = "Fallback" ->
         [s EXCEPT !.fallback = set.value]
    [] set.kind = "IgnoreComments" ->
         [s EXCEPT !.ignore_comments = set.value]
    [] set.kind = "PositionalArguments" ->
         [s EXCEPT !.positional_arguments = set.value]
    [] set.kind = "Shell" ->
         [s EXCEPT !.shell = Some(set.value)]
    [] set.kind = "WindowsPowerShell" ->
         [s EXCEPT !.windows_powershell = set.value]
    [] set.kind = "WindowsShell" ->
         [s EXCEPT !.windows_shell = Some(set.value)]
    [] set.kind = "Tempdir" ->
         [s EXCEPT !.tempdir = Some(set.value)]

RECURSIVE Fold(_, _)
Fold(s, iter) ==
  IF iter = <<>> THEN s ELSE Fold(Apply(s, Head(iter)), Tail(iter))

\* the whole function on a given sequence of directives
from_setting_iter(iter) == Fold(Default, iter)

(* ---------------------------------------- specification of the accumulator *)

InitFold ==
  /\ pc = "fold"
  /\ consumed = <<>>
  /\ settings = Default
  /\ config = NoConfig
  /\ windows = FALSE
  /\ result = None

\* one turn of the loop: the iterator yields the Setting set and the matching
\* arm assigns it
Yield(set) ==
  /\ consumed' = Append(consumed, set)
  /\ settings' = Apply(settings, set)

\* the iterator has another item
HasNext == pc = "fold" /\ Len(consumed) < MaxDirectives

AllowDuplicateRecipes ==
  /\ HasNext
  /\ \E value \in BOOLEAN : Yield(Setting("AllowDuplicateRecipes", value))
  /\ UNCHANGED <<pc, config, windows, result>>

DotenvLoad ==
  /\ HasNext
  /\ \E value \in BOOLEAN : Yield(Setting("DotenvLoad", value))
  /\ UNCHANGED <<pc, config, windows, result>>

Export ==
  /\ HasNext
  /\ \E value \in BOOLEAN : Yield(Setting("Export", value))
  /\ UNCHANGED <<pc, config, windows, result>>

Fallback ==
  /\ HasNext
  /\ \E value \in BOOLEAN : Yield(Setting("Fallback", value))
  /\ UNCHANGED <<pc, config, windows, result>>

IgnoreComments ==
  /\ HasNext
  /\ \E value \in BOOLEAN : Yield(Setting("IgnoreComments", value))
  /\ UNCHANGED <<pc, config, windows, result>>

PositionalArguments ==
  /\ HasNext
  /\ \E value \in BOOLEAN : Yield(Setting("PositionalArguments", value))
  /\ UNCHANGED <<pc, config, windows, result>>

ShellDirective ==
  /\ HasNext
  /\ \E value \in FoldShells : Yield(Setting("Shell", value))
  /\ UNCHANGED <<pc, config, windows, result>>

WindowsPowerShell ==
  /\ HasNext
  /\ \E value \in BOOLEAN : Yield(Setting("WindowsPowerShell", value))
  /\ UNCHANGED <<pc, config, windows, result>>

WindowsShell ==
  /\ HasNext
  /\ \E value \in FoldShells : Yield(Setting("WindowsShell", value))
  /\ UNCHANGED <<pc, config, windows, result>>

Tempdir ==
  /\ HasNext
  /\ \E value \in Tempdirs : Yield(Setting("Tempdir", value))
  /\ UNCHANGED <<pc, config, windows, result>>

\* the iterator is exhausted and the function returns settings
Return ==
  /\ pc = "fold"
  /\ pc' = "returned"
  /\ UNCHANGED <<consumed, settings, config, windows, result>>

NextFold ==
  \/ AllowDuplicateRecipes
  \/ DotenvLoad
  \/ Export
  \/ Fallback
  \/ IgnoreComments
  \/ PositionalArguments
  \/ ShellDirective
  \/ WindowsPowerShell
  \/ WindowsShell
  \/ Tempdir
  \/ Return

SpecFold == InitFold /\ [][NextFold]_vars

(* ---------------------------------------------- properties of the accumulator *)

\* C8: each field of the returned snapshot is the value of the last directive
\* of the field's kind among those consumed (inside Some for dotenv_load,
\* shell, windows_shell and tempdir) and the default, false or None, when no
\* directive of that kind was consumed.
C8_LastDirectiveWins ==
  pc = "returned" =>
    LET at(kind) == {i \in 1..Len(consumed) : consumed[i].kind = kind}
        last(kind) ==
          consumed[CHOOSE i \in at(kind) : \A j \in at(kind) : j <= i].value
        flag(kind) == IF at(kind) = {} THEN FALSE ELSE last(kind)
        option(kind) == IF at(kind) = {} THEN None ELSE Some(last(kind))
    IN  settings =
          [ allow_duplicate_recipes |-> flag("AllowDuplicateRecipes"),
            dotenv_load |-> option("DotenvLoad"),
            export |-> flag("Export"),
            fallback |-> flag("Fallback"),
            ignore_comments |-> flag("IgnoreComments"),
            positional_arguments |-> flag("PositionalArguments"),
            shell |-> option("Shell"),
            tempdir |-> option("Tempdir"),
            windows_powershell |-> flag("WindowsPowerShell"),
            windows_shell |-> option("WindowsShell") ]

C8_Witness ==
  /\ pc = "returned"
  /\ Len(consumed) = 3
  /\ consumed[1].kind = "Shell"
  /\ consumed[2].kind = "Export"
  /\ consumed[3].kind = "Shell"
  /\ consumed[1].value # consumed[3].value
  /\ consumed[2].value
  /\ settings.shell = Some(consumed[3].value)
  /\ settings.export
  /\ settings.windows_shell = None

\* C10: consuming one directive changes no field other than the one of the
\* directive's kind, never turns a field that is Some back into None, and the
\* snapshot reached is the one the fold gives with any two adjacent
\* directives of different kinds swapped.
C10_OneFieldPerDirective ==
  [][ Len(consumed') = Len(consumed) + 1 =>
        LET set == consumed'[Len(consumed')]
            field == [ AllowDuplicateRecipes |-> "allow_duplicate_recipes",
                       DotenvLoad |-> "dotenv_load",
                       Export |-> "export",
                       Fallback |-> "fallback",
                       IgnoreComments |-> "ignore_comments",
                       PositionalArguments |-> "positional_arguments",
                       Shell |-> "shell",
                       Tempdir |-> "tempdir",
                       WindowsPowerShell |-> "windows_powershell",
                       WindowsShell |-> "windows_shell" ]
            swapped(iter, i) ==
              [k \in 1..Len(iter) |->
                 IF k = i THEN iter[i + 1] ELSE IF k = i + 1 THEN iter[i] ELSE iter[k]]
        IN  /\ \A f \in DOMAIN settings :
                 f # field[set.kind] => settings'[f] = settings[f]
            /\ \A f \in {"dotenv_load", "shell", "tempdir", "windows_shell"} :
                 settings[f] # None => settings'[f] # None
            /\ \A i \in 1..(Len(consumed') - 1) :
                 consumed'[i].kind # consumed'[i + 1].kind
                   => from_setting_iter(swapped(consumed', i)) = settings' ]_vars

C10_Witness ==
  /\ Len(consumed) = 3
  /\ consumed[1].kind = "WindowsShell"
  /\ consumed[2].kind = "WindowsPowerShell"
  /\ consumed[3].kind = "Shell"
  /\ consumed[2].value
  /\ settings.windows_shell = Some(consumed[1].value)
  /\ settings.windows_powershell
  /\ settings.shell = Some(consumed[3].value)

====
